---- MODULE Spec2Model ----
(***************************************************************************)
(* Model of brain.py: the restaurant-booking dialogue orchestrator         *)
(* (main / process_state), its extraction services, the search engine      *)
(* find_restaurants and the reservation transaction add_reservation.       *)
(*                                                                         *)
(* Conventions                                                             *)
(*   - a Python str is a sequence of one-character strings, so that        *)
(*     lower(), strip() and the `in` substring test are computed;          *)
(*   - Optional[x] is <<>> for None and <<x>> for a value;                 *)
(*   - a JSON value of the oracle is a record [t, s, n] (see JStr, ...);   *)
(*   - an uncaught Python exception ends the script run: the writes made   *)
(*     to st.session_state before it persist, nothing after it happens.    *)
(***************************************************************************)
EXTENDS Integers, Sequences, FiniteSets, TLC

(***************************************************************************)
(* Bounds of the model                                                     *)
(***************************************************************************)
\* reservations the catalog may hold in all: no turn is accepted in
\* ReservationConfirmed once it is full
MaxReservations == 1
\* nested process_state calls the interpreter allows before RecursionError
MaxDepth == 3
\* script runs of each session in the shared-store specifications
MaxRuns == 3
\* restaurants in the largest catalog of the search specification
MaxCatalog == 6

(***************************************************************************)
(* Python strings                                                          *)
(***************************************************************************)

LowerChar(c) ==
    LET Upper == <<"A", "B", "C", "D", "E", "F", "G", "H", "I", "J", "K", "L", "M",
                   "N", "O", "P", "Q", "R", "S", "T", "U", "V", "W", "X", "Y", "Z">>
        LowerAlpha == <<"a", "b", "c", "d", "e", "f", "g", "h", "i", "j", "k", "l", "m",
                        "n", "o", "p", "q", "r", "s", "t", "u", "v", "w", "x", "y", "z">>
    IN  IF \E i \in 1..26 : Upper[i] = c
        THEN LowerAlpha[CHOOSE i \in 1..26 : Upper[i] = c]
        ELSE c

\* str.lower()
Lower(s) == [i \in 1..Len(s) |-> LowerChar(s[i])]

\* the Python test `sub in s` on strings
IsSubstr(sub, s) ==
    \E i \in 0..(Len(s) - Len(sub)) : SubSeq(s, i + 1, i + Len(sub)) = sub

RECURSIVE LStrip(_)
LStrip(s) == IF s # <<>> /\ Head(s) = " " THEN LStrip(Tail(s)) ELSE s

RECURSIVE RStrip(_)
RStrip(s) ==
    IF s # <<>> /\ s[Len(s)] = " " THEN RStrip(SubSeq(s, 1, Len(s) - 1)) ELSE s

\* str.strip() (blanks only: the model's strings hold no other whitespace)
Strip(s) == RStrip(LStrip(s))

Digits == <<"0", "1", "2", "3", "4", "5", "6", "7", "8", "9">>
IsDigit(c) == \E i \in 1..10 : Digits[i] = c
DigitVal(c) == (CHOOSE i \in 1..10 : Digits[i] = c) - 1

RECURSIVE DigitsVal(_)
DigitsVal(s) ==
    IF s = <<>> THEN 0
    ELSE 10 * DigitsVal(SubSeq(s, 1, Len(s) - 1)) + DigitVal(s[Len(s)])

AllDigits(s) == s # <<>> /\ \A i \in 1..Len(s) : IsDigit(s[i])

\* zero-padded decimal of width 2 and 4 (strftime %m %d %H %M and %Y)
Fmt2(n) == <<Digits[((n \div 10) % 10) + 1], Digits[(n % 10) + 1]>>
Fmt4(n) == Fmt2(n \div 100) \o Fmt2(n % 100)

(***************************************************************************)
(* Strings of the model: user turns, keywords, oracle replies, names       *)
(***************************************************************************)
T_ab == <<"a", "b">>
T_try == <<"t", "r", "y">>

\* the raw texts a user may submit (st.chat_input delivers non-empty text only)
Texts == {<<"Y", "e", "s">>, <<"b", "o", "o", "k", " ", "a", "b">>, T_ab, T_try}

K_book == <<"b", "o", "o", "k">>
K_null == <<"n", "u", "l", "l">>

\* raw replies of the oracle to the intent prompt
IntentReplies ==
    {<<"r", "e", "s", "t", "a", "u", "r", "a", "n", "t", "_", "s", "e", "a", "r", "c", "h">>,
     <<" ", "R", "e", "s", "e", "r", "v", "a", "t", "i", "o", "n">>,
     <<"d", "e", "t", "a", "i", "l", "s">>,
     <<"n", "o", "r", "m", "a", "l", "_", "c", "o", "n", "v", "e", "r", "s", "a", "t", "i", "o", "n">>}

\* free text the oracle generates for a user-facing reply (possibly empty)
LlmTexts == {<<>>, <<"o", "k">>}

D_good == <<"2", "0", "2", "5", "-", "0", "6", "-", "1", "4">>
H_good == <<"1", "9", ":", "3", "0">>

C_It == <<"I", "t">>
C_Th == <<"T", "h">>
Se_In == <<"I", "n">>
Se_Out == <<"O", "u", "t">>

(***************************************************************************)
(* JSON values in an oracle reply, and Python truthiness                   *)
(***************************************************************************)
JMissing == [t |-> "missing", s |-> <<>>, n |-> 0]
JNull == [t |-> "null", s |-> <<>>, n |-> 0]
JStr(s) == [t |-> "str", s |-> s, n |-> 0]
JInt(n) == [t |-> "int", s |-> <<>>, n |-> n]
\* a JSON number with a fraction, held in tenths: JFloat(5) is 0.5
JFloat(tenths) == [t |-> "float", s |-> <<>>, n |-> tenths]

\* bool(dict.get(key)): a missing key and null give None
Truthy(v) ==
    CASE v.t = "str" -> v.s # <<>>
      [] v.t = "int" -> v.n # 0
      [] v.t = "float" -> v.n # 0
      [] OTHER -> FALSE

\* `v != "null"` in Python: only the str "null" is equal to it
NotNullStr(v) == ~(v.t = "str" /\ v.s = K_null)

(***************************************************************************)
(* The restaurant catalog (restaurants_db.json)                            *)
(***************************************************************************)
NameTable == <<<<"A", "b">>, <<"C", "d">>, <<"E", "f">>, <<"G", "h">>>>
CuisineTable == <<C_Th, C_It, C_Th, C_It>>
\* ratings in tenths (4.5 is 45)
RatingTable == <<41, 45, 45, 38>>
SeatingTable == <<<<Se_In, Se_Out>>, <<Se_In>>, <<>>, <<Se_Out>>>>

Slot(i) == ((i - 1) % 4) + 1

\* one record of the seed catalog; the fields no function reads (capacity,
\* opening_hours, specialties, contact) are left out
Restaurant(i) ==
    [id |-> i,
     name |-> NameTable[Slot(i)],
     cuisine |-> CuisineTable[Slot(i)],
     location |-> <<"M", "g">>,
     address |-> <<"1", " ", "M", "g">>,
     price_range |-> <<"5", "0", "0">>,
     rating |-> RatingTable[Slot(i)],
     seating_arrangements |-> SeatingTable[Slot(i)],
     reservations |-> <<>>]

\* the file create_database writes, cut to two restaurants: ids 1..n, every
\* reservation list empty
SeedCatalog == <<Restaurant(1), Restaurant(2)>>

\* next((r for r in restaurants if r["id"] == rid), None), as a sequence
\* index; 0 when there is none.  rid is an Optional id.
IndexOfId(restaurants, rid) ==
    IF rid # <<>> /\ \E i \in 1..Len(restaurants) : restaurants[i].id = rid[1]
    THEN CHOOSE i \in 1..Len(restaurants) :
            /\ restaurants[i].id = rid[1]
            /\ \A j \in 1..(i - 1) : restaurants[j].id # rid[1]
    ELSE 0

(***************************************************************************)
(* Search engine                                                           *)
(***************************************************************************)
\* `params.get(f) and params[f] != 'null'`
Present(v) == Truthy(v) /\ NotNullStr(v)

RECURSIVE InsertDesc(_, _)
\* insert x after every element whose rating is at least x's (stable)
InsertDesc(x, sorted) ==
    IF sorted = <<>> THEN <<x>>
    ELSE IF Head(sorted).rating >= x.rating
         THEN <<Head(sorted)>> \o InsertDesc(x, Tail(sorted))
         ELSE <<x>> \o sorted

\* a sort that leaves the list as it is
SortByRatingDesc_none(rs) == rs

RECURSIVE SortByRatingDesc(_)
\* list.sort(key=rating, reverse=True): stable, equal ratings keep their order
SortByRatingDesc(rs) ==
    IF rs = <<>> THEN <<>>
    ELSE InsertDesc(rs[Len(rs)], SortByRatingDesc(SubSeq(rs, 1, Len(rs) - 1)))

\* a slice that keeps the whole list
Take_all(rs, k) == rs

Take(rs, k) == SubSeq(rs, 1, IF Len(rs) < k THEN Len(rs) ELSE k)

FilterCuisine(params, rs) ==
    IF Present(params.cuisine) /\ params.cuisine.t = "str"
    THEN SelectSeq(rs, LAMBDA r : IsSubstr(Lower(params.cuisine.s), Lower(r.cuisine)))
    ELSE rs

FilterLocation(params, rs) ==
    IF Present(params.location) /\ params.location.t = "str"
    THEN SelectSeq(rs, LAMBDA r :
            \/ IsSubstr(Lower(params.location.s), Lower(r.location))
            \/ IsSubstr(Lower(params.location.s), Lower(r.address)))
    ELSE rs

FilterPrice(params, rs) ==
    IF Present(params.price_range) /\ params.price_range.t = "str"
    THEN SelectSeq(rs, LAMBDA r :
            IsSubstr(Lower(params.price_range.s), Lower(r.price_range)))
    ELSE rs

\* a seating filter that lets every restaurant pass
FilterSeating_skip(params, rs) == rs

FilterSeating(params, rs) ==
    IF Present(params.seating) /\ params.seating.t = "str"
    THEN SelectSeq(rs, LAMBDA r :
            \E i \in 1..Len(r.seating_arrangements) :
                IsSubstr(Lower(params.seating.s), Lower(r.seating_arrangements[i])))
    ELSE rs

\* the four filters in the order the code applies them
Filtered(params, restaurants) ==
    FilterSeating(params,
        FilterPrice(params,
            FilterLocation(params, FilterCuisine(params, restaurants))))

\* .lower() on a present field that is not a str raises AttributeError.  The
\* cuisine, price and seating fields are lowered inside the comprehension, so
\* only when there is an element to test; the location field is lowered first.
FindRaises(params, restaurants) ==
    LET f1 == FilterCuisine(params, restaurants)
        f2 == FilterLocation(params, f1)
        f3 == FilterPrice(params, f2)
    IN  \/ Present(params.cuisine) /\ params.cuisine.t # "str" /\ restaurants # <<>>
        \/ Present(params.location) /\ params.location.t # "str"
        \/ Present(params.price_range) /\ params.price_range.t # "str" /\ f2 # <<>>
        \/ /\ Present(params.seating) /\ params.seating.t # "str"
           /\ \E i \in 1..Len(f3) : f3[i].seating_arrangements # <<>>

\* a search without the recommendation of the top three
find_restaurants_nofallback(params, restaurants) ==
    LET filtered == Filtered(params, restaurants)
    IN  IF Len(filtered) > 5 THEN Take(SortByRatingDesc(filtered), 5) ELSE filtered

find_restaurants(params, restaurants) ==
    LET filtered == Filtered(params, restaurants)
    IN  IF Len(filtered) > 5 THEN Take(SortByRatingDesc(filtered), 5)
        ELSE IF filtered = <<>> THEN Take(SortByRatingDesc(restaurants), 3)
        ELSE filtered

(***************************************************************************)
(* The oracle (ollama.chat) and the extraction services                    *)
(***************************************************************************)
\* get_llm_response: the call raises (transport or service error) or
\* returns the reply's text
LlmFail == [kind |-> "fail"]
LlmText(s) == [kind |-> "text", text |-> s]
\* a reply searched with re.search(r'\{.*\}') and decoded with json.loads:
\* no brace-delimited part, a part json.loads rejects, or an object
LlmNoJson == [kind |-> "nojson"]
LlmBadJson == [kind |-> "badjson"]
LlmJson(obj) == [kind |-> "json", obj |-> obj]

\* detect_intent: keyword tests on the stripped, lowered reply, in this order
detect_intent(reply) ==
    LET response == Lower(Strip(reply))
        restaurant_search == <<"r", "e", "s", "t", "a", "u", "r", "a", "n", "t", "_",
                               "s", "e", "a", "r", "c", "h">>
        search == <<"s", "e", "a", "r", "c", "h">>
        reservation == <<"r", "e", "s", "e", "r", "v", "a", "t", "i", "o", "n">>
        details == <<"d", "e", "t", "a", "i", "l", "s">>
        information == <<"i", "n", "f", "o", "r", "m", "a", "t", "i", "o", "n">>
    IN  IF IsSubstr(restaurant_search, response) \/ IsSubstr(search, response)
        THEN "restaurant_search"
        ELSE IF IsSubstr(reservation, response) \/ IsSubstr(K_book, response)
        THEN "reservation"
        ELSE IF IsSubstr(details, response) \/ IsSubstr(information, response)
        THEN "details"
        ELSE "normal_conversation"

NoParams ==
    [cuisine |-> JMissing, location |-> JMissing,
     price_range |-> JMissing, seating |-> JMissing]

\* extract_search_params: {} when the reply holds no JSON or does not decode
extract_search_params(resp) ==
    IF resp.kind = "json" THEN resp.obj ELSE NoParams

(***************************************************************************)
(* datetime.datetime: strptime, weekday, strftime                          *)
(***************************************************************************)
IsLeap(y) == (y % 4 = 0 /\ y % 100 # 0) \/ y % 400 = 0

DaysInMonth(y, m) ==
    IF m = 2 THEN (IF IsLeap(y) THEN 29 ELSE 28)
    ELSE IF m \in {4, 6, 9, 11} THEN 30 ELSE 31

RECURSIVE DaysBeforeMonth(_, _)
DaysBeforeMonth(y, m) ==
    IF m <= 1 THEN 0 ELSE DaysBeforeMonth(y, m - 1) + DaysInMonth(y, m - 1)

DaysBeforeYear(y) ==
    (y - 1) * 365 + ((y - 1) \div 4) - ((y - 1) \div 100) + ((y - 1) \div 400)

\* date.toordinal(): 0001-01-01 is day 1
ToOrdinal(dt) == DaysBeforeYear(dt.y) + DaysBeforeMonth(dt.y, dt.m) + dt.d

\* a weekday numbered from Sunday, as tm_wday is
Weekday_from_sunday(dt) == ToOrdinal(dt) % 7

\* datetime.weekday(): 0 = Monday
Weekday(dt) == (ToOrdinal(dt) + 6) % 7

weekday_names ==
    <<"Monday", "Tuesday", "Wednesday", "Thursday", "Friday", "Saturday", "Sunday">>

\* strftime("%A"): the C locale's day name, indexed by tm_wday (0 = Sunday)
StrftimeA(dt) ==
    LET tm_wday == (Weekday(dt) + 1) % 7
    IN  <<"Sunday", "Monday", "Tuesday", "Wednesday", "Thursday", "Friday",
          "Saturday">>[tm_wday + 1]

\* strftime("%Y-%m-%d %H:%M")
StrftimeYmdHM(dt) ==
    Fmt4(dt.y) \o <<"-">> \o Fmt2(dt.m) \o <<"-">> \o Fmt2(dt.d) \o <<" ">>
        \o Fmt2(dt.H) \o <<":">> \o Fmt2(dt.M)

\* the text has the shape dddd-dd-dd dd:dd (strptime also takes unpadded
\* fields; the model's oracle never writes them)
DtShape(s) ==
    /\ Len(s) = 16
    /\ s[5] = "-" /\ s[8] = "-" /\ s[11] = " " /\ s[14] = ":"
    /\ \A i \in {1, 2, 3, 4, 6, 7, 9, 10, 12, 13, 15, 16} : IsDigit(s[i])

DtFields(s) ==
    [y |-> DigitsVal(SubSeq(s, 1, 4)), m |-> DigitsVal(SubSeq(s, 6, 7)),
     d |-> DigitsVal(SubSeq(s, 9, 10)), H |-> DigitsVal(SubSeq(s, 12, 13)),
     M |-> DigitsVal(SubSeq(s, 15, 16))]

DtInRange(f) ==
    /\ f.y >= 1
    /\ f.m \in 1..12
    /\ f.d >= 1 /\ f.d <= DaysInMonth(f.y, f.m)
    /\ f.H \in 0..23
    /\ f.M \in 0..59

\* datetime.strptime(s, "%Y-%m-%d %H:%M"): <<dt>>, or <<>> for ValueError
Strptime(s) ==
    IF DtShape(s) /\ DtInRange(DtFields(s)) THEN <<DtFields(s)>> ELSE <<>>

\* str() of a JSON value inside the f-string f"{date} {time}"; a number
\* never has the shape of a date or of a time
JText(v) == IF v.t = "str" THEN v.s ELSE <<"#">>

(***************************************************************************)
(* Replies: [tpl, text].  tpl is the literal (or f-string) the code        *)
(* returns, "llm" for text the oracle generated (held in text), "" for the *)
(* empty string.                                                           *)
(***************************************************************************)
Reply(tpl) == [tpl |-> tpl, text |-> <<>>]
LlmReply(s) == [tpl |-> "llm", text |-> s]
\* `not response` for a str
IsEmptyStr(r) == r.tpl = "" \/ (r.tpl = "llm" /\ r.text = <<>>)
DefaultReply ==
    Reply("I'm not sure what you're looking for. Would you like to search for restaurants or make a reservation?")

\* parse_date_time past the oracle call: [dt, msg]
parse_date_time(resp) ==
    IF resp.kind = "nojson"
    THEN [dt |-> <<>>,
          msg |-> Reply("I couldn't parse that. Please specify when you'd like to make your reservation.")]
    ELSE IF resp.kind = "badjson"
    THEN [dt |-> <<>>,
          msg |-> Reply("I'm having trouble understanding the date and time. Please use a format like 'tomorrow at 7 PM'.")]
    ELSE LET date == resp.obj.date
             time == resp.obj.time
         IN  IF Truthy(date) /\ Truthy(time) /\ NotNullStr(date) /\ NotNullStr(time)
             THEN LET dt == Strptime(JText(date) \o <<" ">> \o JText(time))
                  IN  IF dt = <<>>
                      THEN [dt |-> <<>>,
                            msg |-> Reply("I couldn't understand that date format. Please specify a date and time.")]
                      ELSE IF StrftimeA(dt[1]) # weekday_names[Weekday(dt[1]) + 1]
                      THEN [dt |-> dt,
                            msg |-> Reply("Got it! Reservation for {weekday_names[weekday_num]}, {dt_formatted}.")]
                      ELSE [dt |-> dt, msg |-> Reply("")]
             ELSE [dt |-> <<>>,
                   msg |-> Reply("I couldn't determine the date or time. Please specify both.")]

\* int(x) for a JSON value: <<n>>, or <<>> for ValueError / TypeError
PyInt(v) ==
    CASE v.t = "int" -> <<v.n>>
      [] v.t = "float" -> <<IF v.n >= 0 THEN v.n \div 10 ELSE -((-v.n) \div 10)>>
      [] v.t = "str" ->
            LET s == Strip(v.s)
                neg == s # <<>> /\ Head(s) = "-"
                body == IF s # <<>> /\ Head(s) \in {"-", "+"} THEN Tail(s) ELSE s
            IN  IF AllDigits(body)
                THEN <<IF neg THEN -DigitsVal(body) ELSE DigitsVal(body)>>
                ELSE <<>>
      [] OTHER -> <<>>

\* parse_party_size past the oracle call: [party_size, msg]
parse_party_size(resp) ==
    IF resp.kind = "nojson"
    THEN [party_size |-> <<>>,
          msg |-> Reply("I couldn't parse that. Please specify how many people are in your party.")]
    ELSE IF resp.kind = "badjson"
    THEN [party_size |-> <<>>,
          msg |-> Reply("I'm having trouble understanding the party size. Please tell me how many people will be dining.")]
    ELSE LET v == resp.obj.party_size
         IN  IF Truthy(v) /\ NotNullStr(v)
             THEN IF PyInt(v) = <<>>
                  THEN [party_size |-> <<>>,
                        msg |-> Reply("I'm having trouble understanding the party size. Please tell me how many people will be dining.")]
                  ELSE [party_size |-> PyInt(v), msg |-> Reply("")]
             ELSE [party_size |-> <<>>,
                   msg |-> Reply("I couldn't determine the party size. How many people will be dining?")]

\* detect_intent_with_context past the oracle call: what the function
\* returns.  "dict" with the restaurant_id entry, or "None": when the reply
\* holds no JSON object the function falls off its end.
detect_intent_with_context(resp) ==
    IF resp.kind = "json" THEN [ret |-> "dict", restaurant_id |-> resp.obj.restaurant_id]
    ELSE IF resp.kind = "badjson" THEN [ret |-> "dict", restaurant_id |-> JNull]
    ELSE [ret |-> "None", restaurant_id |-> JNull]

RECURSIVE SumLen(_)
SumLen(rs) ==
    IF rs = <<>> THEN 0 ELSE Len(Head(rs).reservations) + SumLen(Tail(rs))

(***************************************************************************)
(* Reservation transaction                                                 *)
(***************************************************************************)
\* add_reservation applied to a catalog: [ok, restaurants, reservation].
\* restaurant_id is an Optional id; the first restaurant with that id gets
\* the reservation, whose id is the length of its list plus one.
\* a transaction that books the first restaurant when the id is of none
add_reservation_first(restaurants, restaurant_id, name, datetime_obj, party_size) ==
    LET found == IndexOfId(restaurants, restaurant_id)
        i == IF found = 0 THEN 1 ELSE found
        reservation ==
            [id |-> Len(restaurants[i].reservations) + 1,
             name |-> name,
             datetime |-> StrftimeYmdHM(datetime_obj[1]),
             party_size |-> party_size,
             status |-> "confirmed"]
    IN  [ok |-> TRUE,
         restaurants |-> [restaurants EXCEPT ![i].reservations = Append(@, reservation)],
         reservation |-> <<reservation>>]

\* a transaction that numbers reservations over the whole catalog
add_reservation_global(restaurants, restaurant_id, name, datetime_obj, party_size) ==
    LET i == IndexOfId(restaurants, restaurant_id)
    IN  IF i = 0
        THEN [ok |-> FALSE, restaurants |-> restaurants, reservation |-> <<>>]
        ELSE LET reservation ==
                     [id |-> SumLen(restaurants) + 1,
                      name |-> name,
                      datetime |-> StrftimeYmdHM(datetime_obj[1]),
                      party_size |-> party_size,
                      status |-> "confirmed"]
             IN  [ok |-> TRUE,
                  restaurants |->
                      [restaurants EXCEPT ![i].reservations = Append(@, reservation)],
                  reservation |-> <<reservation>>]

\* a transaction that overwrites the restaurant's reservation list
add_reservation_replace(restaurants, restaurant_id, name, datetime_obj, party_size) ==
    LET i == IndexOfId(restaurants, restaurant_id)
    IN  IF i = 0
        THEN [ok |-> FALSE, restaurants |-> restaurants, reservation |-> <<>>]
        ELSE LET reservation ==
                     [id |-> Len(restaurants[i].reservations) + 1,
                      name |-> name,
                      datetime |-> StrftimeYmdHM(datetime_obj[1]),
                      party_size |-> party_size,
                      status |-> "confirmed"]
             IN  [ok |-> TRUE,
                  restaurants |->
                      [restaurants EXCEPT ![i].reservations = <<reservation>>],
                  reservation |-> <<reservation>>]

add_reservation(restaurants, restaurant_id, name, datetime_obj, party_size) ==
    LET i == IndexOfId(restaurants, restaurant_id)
    IN  IF i = 0
        THEN [ok |-> FALSE, restaurants |-> restaurants, reservation |-> <<>>]
        ELSE LET reservation ==
                     [id |-> Len(restaurants[i].reservations) + 1,
                      name |-> name,
                      datetime |-> StrftimeYmdHM(datetime_obj[1]),
                      party_size |-> party_size,
                      status |-> "confirmed"]
             IN  [ok |-> TRUE,
                  restaurants |->
                      [restaurants EXCEPT ![i].reservations = Append(@, reservation)],
                  reservation |-> <<reservation>>]

\* datetime_obj.strftime on None raises AttributeError (inside the loop, so
\* only when the restaurant is found)
AddReservationRaises(restaurants, restaurant_id, datetime_obj) ==
    IndexOfId(restaurants, restaurant_id) # 0 /\ datetime_obj = <<>>

(***************************************************************************)
(* State                                                                   *)
(***************************************************************************)
VARIABLES
    \* st.session_state
    state,                  \* st.session_state.state
    chat_history,           \* the last two role-tagged messages, each
                            \* [role, empty]: process_state reads only
                            \* chat_history[-2] and whether the list is empty;
                            \* a text is kept as whether it is empty
    current_restaurant_id,  \* Optional id
    reservation_info,       \* the draft: [name, datetime, party_size], Optional each
    filtered_restaurants,   \* the stored result set (restaurant records)
    last_processed_input,   \* Optional text
    \* restaurants_db.json
    db,
    \* the script run in progress
    pc,                     \* "idle": no run, waiting for input;
                            \* "proc": inside process_state;
                            \* "respond": process_state returned to main;
                            \* "raised": an exception is propagating out of main;
                            \* "ignored": the input was a duplicate
    user_input,             \* Optional text st.chat_input delivered to the run
    depth,                  \* nested process_state calls of the run
    response,               \* Optional reply process_state returned to main
    exc,                    \* the exception propagating, "" when none
    at_start,               \* Optional snapshot of the session and the catalog
                            \* when the run's turn was accepted (history variable)
    flow,                   \* Optional [n, first]: the turns answered, each with a
                            \* change of state, since a Restaurant-Suggestion turn
                            \* put the session in Make-Reservation, and the text of
                            \* the first of them (history variable)
    \* sessions sharing one catalog file: s -> [pc, restaurants, runs]
    sess,
    \* the reservations add_reservation reported as committed, in commit order
    acked

session == <<state, chat_history, current_restaurant_id, reservation_info,
             filtered_restaurants, last_processed_input>>
run == <<pc, user_input, depth, response, exc, at_start>>
shared == <<sess, acked>>
vars == <<session, db, run, shared, flow>>

GREETING == "Greeting"
INTENT_DETECTION == "IntentDetection"
FIND_RESTAURANT == "FindRestaurant"
RESTAURANT_SUGGESTION == "RestaurantSuggestion"
RESTAURANT_DETAILS == "RestaurantDetails"
MAKE_RESERVATION == "MakeReservation"
NAME_PROMPT == "NamePrompt"
DATETIME_PROMPT == "DateTimePrompt"
PARTY_PROMPT == "PartyPrompt"
CONFIRM_RESERVATION == "ConfirmReservation"
RESERVATION_CONFIRMED == "ReservationConfirmed"
DATABASE_PUSH == "DatabasePush"
RESERVATION_SUCCESS == "ReservationSuccess"
ERROR_HANDLING == "ErrorHandling"
RESERVATION_RETRY == "ReservationRetry"
SUPPORT == "Support"
THANK_YOU == "ThankYou"
NORMAL_CONVERSATION == "NormalConversation"

\* next_state = None, response = None
NoState == "None"
NoReply == [tpl |-> "None", text |-> <<>>]

Sessions == {"s1", "s2"}

\* load_database(): the catalog as persisted
load_database == db

EmptyDraft == [name |-> <<>>, datetime |-> <<>>, party_size |-> <<>>]

\* the key defaults of main, before the first script run
Init ==
    /\ state = GREETING
    /\ chat_history = <<>>
    /\ current_restaurant_id = <<>>
    /\ reservation_info = EmptyDraft
    /\ filtered_restaurants = <<>>
    /\ last_processed_input = <<>>
    /\ db = SeedCatalog
    /\ pc = "idle"
    /\ user_input = <<>>
    /\ depth = 0
    /\ response = <<>>
    /\ exc = ""
    /\ at_start = <<>>
    /\ flow = <<>>
    /\ sess = [s \in Sessions |-> [pc |-> "idle", restaurants |-> <<>>, runs |-> 0]]
    /\ acked = <<>>

(***************************************************************************)
(* Oracle behaviours the model draws from                                  *)
(***************************************************************************)
IntentOracle == {LlmFail} \cup {LlmText(r) : r \in IntentReplies}
TextOracle == {LlmFail} \cup {LlmText(r) : r \in LlmTexts}

Params(c) == [NoParams EXCEPT !.cuisine = c]
SearchOracle ==
    {LlmFail, LlmNoJson, LlmBadJson}
        \cup {LlmJson(Params(c)) :
                c \in {JNull, JStr(<<"i", "t">>), JStr(<<"z", "z">>), JStr(K_null), JInt(5)}}

DateTimeOracle ==
    {LlmFail, LlmNoJson, LlmBadJson}
        \cup {LlmJson([date |-> d, time |-> t]) :
                d \in {JStr(D_good),
                       JStr(<<"2", "0", "2", "5", "-", "0", "2", "-", "3", "0">>),
                       JNull},
                t \in {JStr(H_good), JStr(<<"2", "5", ":", "0", "0">>)}}

PartyOracle ==
    {LlmFail, LlmNoJson, LlmBadJson}
        \cup {LlmJson([party_size |-> v]) :
                v \in {JInt(4), JInt(0), JFloat(5), JStr(<<"4">>), JStr(<<"f", "o", "u", "r">>),
                       JStr(K_null), JNull, JMissing}}

\* ids the oracle may name: 0, the catalog's ids, and one id of no restaurant
MatchOracle ==
    {LlmFail, LlmNoJson, LlmBadJson}
        \cup {LlmJson([restaurant_id |-> v]) :
                v \in {JNull, JMissing} \cup {JInt(k) : k \in 0..(Len(SeedCatalog) + 1)}}

(***************************************************************************)
(* main                                                                    *)
(***************************************************************************)
\* st.session_state.chat_history.append(msg), on the last two messages
HistAppend(h, msg) ==
    LET all == Append(h, msg)
    IN  IF Len(all) > 2 THEN SubSeq(all, Len(all) - 1, Len(all)) ELSE all

\* the catalog has room for one more reservation
HasRoom == SumLen(db) < MaxReservations

\* the first script run: the greeting is appended and the state leaves GREETING
Greet ==
    /\ pc = "idle"
    /\ state = GREETING /\ chat_history = <<>>
    /\ chat_history' = HistAppend(chat_history, [role |-> "assistant", empty |-> FALSE])
    /\ state' = INTENT_DETECTION
    /\ UNCHANGED <<current_restaurant_id, reservation_info, filtered_restaurants,
                   last_processed_input, db, run, shared, flow>>

\* `user_input != st.session_state.last_processed_input` is false
\* a guard that never takes a text for the last processed one
IsDuplicate_never(text) == FALSE

IsDuplicate(text) == last_processed_input = <<text>>

\* the session and the catalog, as a turn finds them
Snapshot ==
    [state |-> state, current_restaurant_id |-> current_restaurant_id,
     reservation_info |-> reservation_info,
     filtered_restaurants |-> filtered_restaurants, db |-> db]

\* a script run with a text from st.chat_input, up to the call of process_state
Submit(text) ==
    /\ pc = "idle"
    /\ state # GREETING
    /\ user_input' = <<text>>
    /\ IF IsDuplicate(text)
       THEN /\ pc' = "ignored"
            /\ UNCHANGED <<session, db, depth, response, exc, at_start, shared, flow>>
       ELSE /\ state = RESERVATION_CONFIRMED => HasRoom
            /\ last_processed_input' = <<text>>
            /\ chat_history' = HistAppend(chat_history, [role |-> "user", empty |-> text = <<>>])
            /\ pc' = "proc"
            /\ at_start' = <<Snapshot>>
            /\ UNCHANGED <<state, current_restaurant_id, reservation_info,
                           filtered_restaurants, db, depth, response, exc, shared, flow>>

\* lines 526-530: main shows the reply and appends it to the history; the run ends
Respond ==
    /\ pc = "respond"
    /\ chat_history' =
          HistAppend(chat_history, [role |-> "assistant", empty |-> IsEmptyStr(response[1])])
    /\ pc' = "idle"
    /\ user_input' = <<>>
    /\ response' = <<>>
    /\ depth' = 0
    /\ at_start' = <<>>
    /\ flow' = IF at_start[1].state = RESTAURANT_SUGGESTION /\ state = MAKE_RESERVATION
               THEN <<[n |-> 0, first |-> <<>>]>>
               ELSE IF flow # <<>> /\ flow[1].n < 3 /\ state # at_start[1].state
               THEN <<[n |-> flow[1].n + 1,
                       first |-> IF flow[1].n = 0 THEN user_input ELSE flow[1].first]>>
               ELSE <<>>
    /\ UNCHANGED <<state, current_restaurant_id, reservation_info, filtered_restaurants,
                   last_processed_input, db, exc, shared>>

\* the exception leaves main: the run ends, st.session_state keeps what was written
RunAborted ==
    /\ pc = "raised"
    /\ pc' = "idle"
    /\ user_input' = <<>>
    /\ exc' = ""
    /\ depth' = 0
    /\ at_start' = <<>>
    /\ flow' = <<>>
    /\ UNCHANGED <<session, db, response, shared>>

\* the run of a duplicate input ends
RunIgnored ==
    /\ pc = "ignored"
    /\ pc' = "idle"
    /\ user_input' = <<>>
    /\ UNCHANGED <<session, db, depth, response, exc, at_start, shared, flow>>

(***************************************************************************)
(* process_state: the tail every call runs (lines 739-748), and the return *)
(* to main (lines 526-530)                                                 *)
(***************************************************************************)
\* `response or "I'm not sure ..."`
\* the reply handed back as the handler left it, without `or`
ReplyOrDefault_asis(resp) == resp

ReplyOrDefault(resp) == IF resp = NoReply \/ IsEmptyStr(resp) THEN DefaultReply ELSE resp

\* a tail that never calls process_state again
Reenters_never(cur, next, resp) == FALSE

\* `response is None and next_state and next_state != current_state`
Reenters(cur, next, resp) == resp = NoReply /\ next # NoState /\ next # cur

\* an exception no handler catches
Raise(kind) ==
    /\ pc' = "raised"
    /\ exc' = kind
    /\ UNCHANGED <<chat_history, response, depth, at_start>>

Finish(next, resp) ==
    /\ state' = IF next # NoState THEN next ELSE state
    /\ IF Reenters(state, next, resp)
       THEN IF depth < MaxDepth
            THEN /\ depth' = depth + 1
                 /\ UNCHANGED <<pc, chat_history, response, exc, at_start>>
            ELSE Raise("RecursionError")
       ELSE /\ response' = <<ReplyOrDefault(resp)>>
            /\ pc' = "respond"
            /\ UNCHANGED <<chat_history, depth, exc, at_start>>

\* an exception raised inside a handler: st.session_state.state is not assigned
Crash(kind) ==
    /\ Raise(kind)
    /\ UNCHANGED state

Handling(s) == pc = "proc" /\ state = s

\* a test that takes an unset id for a matched restaurant
IdTruthy_any(cid) == TRUE

IdTruthy(cid) == cid # <<>> /\ cid[1] # 0

\* a test that finds booking language in no text
HasBooking_never(text) == FALSE

HasBooking(text) ==
    IsSubstr(<<"r", "e", "s", "e", "r", "v">>, Lower(text)) \/ IsSubstr(K_book, Lower(text))

(***************************************************************************)
(* process_state: one action per branch on current_state.  Each action is  *)
(* one call of process_state, its tail included.                           *)
(***************************************************************************)
IntentDetection ==
    /\ Handling(INTENT_DETECTION)
    /\ UNCHANGED <<current_restaurant_id, reservation_info, filtered_restaurants,
                   last_processed_input, db, user_input, shared, flow>>
    /\ \E o \in IntentOracle :
        IF o.kind = "fail" THEN Crash("OracleError")
        ELSE LET intent == detect_intent(o.text)
             IN  CASE intent = "restaurant_search" -> Finish(FIND_RESTAURANT, NoReply)
                   [] intent = "reservation" ->
                        IF IdTruthy(current_restaurant_id)
                        THEN Finish(MAKE_RESERVATION,
                                Reply("Great! Let's make a reservation. Under what name should I make the reservation?"))
                        ELSE Finish(FIND_RESTAURANT,
                                Reply("I'd be happy to help you make a reservation. First, let's find a restaurant. Do you have any preferences for cuisine, location, or price range?"))
                   [] intent = "details" ->
                        IF IdTruthy(current_restaurant_id)
                        THEN Finish(RESTAURANT_DETAILS, NoReply)
                        ELSE Finish(FIND_RESTAURANT,
                                Reply("I'd be happy to provide details about a restaurant. Which restaurant are you interested in?"))
                   [] OTHER ->
                        \* generate_conversation_response
                        \E g \in TextOracle :
                            IF g.kind = "fail" THEN Crash("OracleError")
                            ELSE Finish(NORMAL_CONVERSATION, LlmReply(g.text))

\* the result set as st.session_state keeps it: the restaurant records
\* without their reservation lists, which nothing reads from the stored copies
Stored(rs) ==
    [i \in 1..Len(rs) |->
        [id |-> rs[i].id, name |-> rs[i].name, cuisine |-> rs[i].cuisine,
         location |-> rs[i].location, address |-> rs[i].address,
         price_range |-> rs[i].price_range, rating |-> rs[i].rating,
         seating_arrangements |-> rs[i].seating_arrangements]]

\* the handler, given what the oracle answers to extract_search_params' prompt
FindRestaurantOn(o) ==
    /\ Handling(FIND_RESTAURANT)
    /\ UNCHANGED <<current_restaurant_id, reservation_info, last_processed_input,
                   db, user_input, shared, flow>>
    /\ IF o.kind = "fail"
       THEN Crash("OracleError") /\ UNCHANGED filtered_restaurants
       ELSE LET search_params == extract_search_params(o)
            IN  IF FindRaises(search_params, load_database)
                THEN Crash("AttributeError") /\ UNCHANGED filtered_restaurants
                ELSE /\ filtered_restaurants' =
                           Stored(find_restaurants(search_params, load_database))
                     \* generate_restaurant_suggestions, after the result set is stored
                     /\ \E g \in TextOracle :
                           IF g.kind = "fail" THEN Crash("OracleError")
                           ELSE Finish(RESTAURANT_SUGGESTION, LlmReply(g.text))

FindRestaurant == \E o \in SearchOracle : FindRestaurantOn(o)

\* a match that prefers the lowest id among the restaurants named in the text
DirectMatch_lowest_id(text, filtered) ==
    LET ids == {filtered[i].id : i \in {i \in 1..Len(filtered) :
                                          IsSubstr(Lower(filtered[i].name), Lower(text))}}
    IN  IF ids = {} THEN <<>> ELSE <<CHOOSE a \in ids : \A b \in ids : a <= b>>

\* the direct name match: the id of the first stored restaurant whose lowered
\* name occurs in the lowered text, as an Optional id
DirectMatch(text, filtered) ==
    LET hits == {i \in 1..Len(filtered) : IsSubstr(Lower(filtered[i].name), Lower(text))}
    IN  IF hits = {} THEN <<>>
        ELSE <<filtered[CHOOSE i \in hits : \A j \in hits : i <= j].id>>

\* lines 600-609: a restaurant id was found
SuggestionMatched(restaurant_id) ==
    /\ current_restaurant_id' = restaurant_id
    /\ LET restaurant == IndexOfId(load_database, restaurant_id)
       IN  IF HasBooking(user_input[1])
           THEN IF restaurant = 0
                THEN \* restaurant['name'] on None
                     Crash("TypeError")
                ELSE Finish(MAKE_RESERVATION,
                        Reply("Great! I'll make a reservation at {restaurant['name']} for you. Under what name should I make the reservation?"))
           ELSE \* generate_restaurant_details
                \E g \in TextOracle :
                    IF g.kind = "fail" THEN Crash("OracleError")
                    ELSE Finish(RESTAURANT_DETAILS, LlmReply(g.text))

\* an unmatched turn that forgets the restaurant matched earlier
SuggestionUnmatched_clears ==
    /\ current_restaurant_id' = <<>>
    /\ IF HasBooking(user_input[1])
       THEN Finish(NoState,
                Reply("Which of these restaurants would you like to make a reservation for? Please specify the restaurant name clearly."))
       ELSE Finish(INTENT_DETECTION, NoReply)

\* lines 611-619: no restaurant id
SuggestionUnmatched ==
    /\ UNCHANGED current_restaurant_id
    /\ IF HasBooking(user_input[1])
       THEN Finish(NoState,
                Reply("Which of these restaurants would you like to make a reservation for? Please specify the restaurant name clearly."))
       ELSE Finish(INTENT_DETECTION, NoReply)

\* the handler, given what the oracle answers to detect_intent_with_context's
\* prompt when it is asked
RestaurantSuggestionOn(o) ==
    /\ Handling(RESTAURANT_SUGGESTION)
    /\ UNCHANGED <<reservation_info, filtered_restaurants, last_processed_input,
                   db, user_input, shared, flow>>
    /\ LET direct == DirectMatch(user_input[1], filtered_restaurants)
       IN  IF IdTruthy(direct) THEN SuggestionMatched(direct)
           ELSE IF o.kind = "fail"
           THEN Crash("OracleError") /\ UNCHANGED current_restaurant_id
           ELSE LET intent_data == detect_intent_with_context(o)
                IN  IF intent_data.ret = "None"
                    THEN \* intent_data.get on None
                         /\ Crash("AttributeError")
                         /\ UNCHANGED current_restaurant_id
                    ELSE IF Truthy(intent_data.restaurant_id)
                    THEN SuggestionMatched(<<intent_data.restaurant_id.n>>)
                    ELSE SuggestionUnmatched

RestaurantSuggestion == \E o \in MatchOracle : RestaurantSuggestionOn(o)

RestaurantDetails ==
    /\ Handling(RESTAURANT_DETAILS)
    /\ UNCHANGED <<current_restaurant_id, reservation_info, filtered_restaurants,
                   last_processed_input, db, user_input, shared, flow>>
    /\ \E o \in IntentOracle :
        IF o.kind = "fail" THEN Crash("OracleError")
        ELSE IF HasBooking(user_input[1]) \/ detect_intent(o.text) = "reservation"
        THEN Finish(MAKE_RESERVATION,
                Reply("Great! I'd be happy to make a reservation for you. Under what name should I make the reservation?"))
        ELSE Finish(INTENT_DETECTION, NoReply)

MakeReservation ==
    /\ Handling(MAKE_RESERVATION)
    /\ UNCHANGED <<current_restaurant_id, reservation_info, filtered_restaurants,
                   last_processed_input, db, user_input, shared, flow>>
    /\ Finish(NAME_PROMPT, Reply("Under what name should I make the reservation?"))

NamePrompt ==
    /\ Handling(NAME_PROMPT)
    /\ reservation_info' = [reservation_info EXCEPT !.name = user_input]
    /\ UNCHANGED <<current_restaurant_id, filtered_restaurants,
                   last_processed_input, db, user_input, shared, flow>>
    /\ Finish(DATETIME_PROMPT,
            Reply("Thank you, {user_input}. When would you like to make your reservation? Please specify the date and time."))

\* lines 649-655: the handler past the call of parse_date_time, given the
\* pair [dt, msg] it returned
DateTimeGiven(r) ==
    /\ Handling(DATETIME_PROMPT)
    /\ UNCHANGED <<current_restaurant_id, filtered_restaurants,
                   last_processed_input, db, user_input, shared, flow>>
    /\ IF r.dt # <<>>
       THEN /\ reservation_info' = [reservation_info EXCEPT !.datetime = r.dt]
            /\ Finish(PARTY_PROMPT,
                  Reply("Got it! Reservation for {datetime_obj.strftime('%A, %B %d at %I:%M %p')}. How many people will be in your party?"))
       ELSE /\ UNCHANGED reservation_info
            /\ Finish(NoState, r.msg)

\* the handler, given what the oracle answers to parse_date_time's prompt
DateTimePromptOn(o) ==
    IF o.kind = "fail"
    THEN /\ Handling(DATETIME_PROMPT)
         /\ UNCHANGED <<current_restaurant_id, filtered_restaurants,
                        last_processed_input, db, user_input, shared, flow>>
         /\ Crash("OracleError") /\ UNCHANGED reservation_info
    ELSE DateTimeGiven(parse_date_time(o))

DateTimePrompt == \E o \in DateTimeOracle : DateTimePromptOn(o)

\* the handler, given what the oracle answers to parse_party_size's prompt
PartyPromptOn(o) ==
    /\ Handling(PARTY_PROMPT)
    /\ UNCHANGED <<current_restaurant_id, filtered_restaurants,
                   last_processed_input, db, user_input, shared, flow>>
    /\ IF o.kind = "fail"
       THEN Crash("OracleError") /\ UNCHANGED reservation_info
       ELSE LET r == parse_party_size(o)
            IN  IF r.party_size # <<>> /\ r.party_size[1] # 0
                THEN /\ reservation_info' = [reservation_info EXCEPT !.party_size = r.party_size]
                     /\ IF reservation_info.datetime = <<>>
                        THEN \* .strftime on None in the summary
                             Crash("AttributeError")
                        ELSE Finish(CONFIRM_RESERVATION,
                               Reply("Great! Let me confirm your reservation: ... Is this information correct? (yes/no)"))
                ELSE /\ UNCHANGED reservation_info
                     /\ Finish(NoState, r.msg)

PartyPrompt == \E o \in PartyOracle : PartyPromptOn(o)

\* a test that takes every text for a confirmation
IsAffirmative_any(text) == TRUE

IsAffirmative(text) ==
    \/ IsSubstr(<<"y", "e", "s">>, Lower(text))
    \/ IsSubstr(<<"c", "o", "r", "r", "e", "c", "t">>, Lower(text))
    \/ IsSubstr(<<"c", "o", "n", "f", "i", "r", "m">>, Lower(text))

ConfirmReservation ==
    /\ Handling(CONFIRM_RESERVATION)
    /\ UNCHANGED <<current_restaurant_id, reservation_info, filtered_restaurants,
                   last_processed_input, db, user_input, shared, flow>>
    /\ IF IsAffirmative(user_input[1])
       THEN Finish(RESERVATION_CONFIRMED,
                Reply("Thank you for confirming. I'm processing your reservation now..."))
       ELSE Finish(MAKE_RESERVATION,
                Reply("Let's try again. Under what name should I make the reservation?"))

\* a commit handler that leaves the provisional DATABASE_PUSH in place when
\* the transaction fails
ReservationConfirmed_provisional ==
    /\ Handling(RESERVATION_CONFIRMED)
    /\ UNCHANGED <<current_restaurant_id, reservation_info, filtered_restaurants,
                   last_processed_input, user_input, shared, flow>>
    /\ IF AddReservationRaises(load_database, current_restaurant_id, reservation_info.datetime)
       THEN Crash("AttributeError") /\ UNCHANGED db
       ELSE LET r == add_reservation(load_database, current_restaurant_id,
                        reservation_info.name, reservation_info.datetime,
                        reservation_info.party_size)
            IN  IF r.ok
                THEN /\ db' = r.restaurants
                     /\ Finish(RESERVATION_SUCCESS,
                            Reply("Your reservation at {restaurant['name']} has been confirmed! We look forward to serving you on {...}. Is there anything else you would like to know?"))
                ELSE /\ UNCHANGED db
                     /\ Finish(DATABASE_PUSH,
                            Reply("I'm sorry, there was an error processing your reservation. Would you like to try again or speak with customer support?"))

ReservationConfirmed ==
    /\ Handling(RESERVATION_CONFIRMED)
    /\ UNCHANGED <<current_restaurant_id, reservation_info, filtered_restaurants,
                   last_processed_input, user_input, shared, flow>>
    /\ IF AddReservationRaises(load_database, current_restaurant_id, reservation_info.datetime)
       THEN Crash("AttributeError") /\ UNCHANGED db
       ELSE LET r == add_reservation(load_database, current_restaurant_id,
                        reservation_info.name, reservation_info.datetime,
                        reservation_info.party_size)
            IN  IF r.ok
                THEN \* save_database, inside add_reservation
                     /\ db' = r.restaurants
                     /\ Finish(RESERVATION_SUCCESS,
                            Reply("Your reservation at {restaurant['name']} has been confirmed! We look forward to serving you on {...}. Is there anything else you would like to know?"))
                ELSE /\ UNCHANGED db
                     /\ Finish(ERROR_HANDLING,
                            Reply("I'm sorry, there was an error processing your reservation. Would you like to try again or speak with customer support?"))

ErrorHandling ==
    /\ Handling(ERROR_HANDLING)
    /\ UNCHANGED <<current_restaurant_id, reservation_info, filtered_restaurants,
                   last_processed_input, db, user_input, shared, flow>>
    /\ IF \/ IsSubstr(<<"t", "r", "y">>, Lower(user_input[1]))
          \/ IsSubstr(<<"a", "g", "a", "i", "n">>, Lower(user_input[1]))
       THEN Finish(RESERVATION_RETRY,
                Reply("Let's try making your reservation again. Under what name should I make the reservation?"))
       ELSE Finish(SUPPORT,
                Reply("I'll connect you with customer support. Please call +91 80 12345678 during business hours (9 AM - 6 PM) for assistance with your reservation."))

ReservationRetry ==
    /\ Handling(RESERVATION_RETRY)
    /\ UNCHANGED <<current_restaurant_id, reservation_info, filtered_restaurants,
                   last_processed_input, db, user_input, shared, flow>>
    /\ Finish(MAKE_RESERVATION,
            Reply("Let's start over with your reservation. Under what name should I make the reservation?"))

Support ==
    /\ Handling(SUPPORT)
    /\ UNCHANGED <<current_restaurant_id, reservation_info, filtered_restaurants,
                   last_processed_input, db, user_input, shared, flow>>
    /\ Finish(INTENT_DETECTION,
            Reply("Our customer support team is available to help you. Is there anything else I can assist you with?"))

ReservationSuccess ==
    /\ Handling(RESERVATION_SUCCESS)
    /\ UNCHANGED <<current_restaurant_id, reservation_info, filtered_restaurants,
                   last_processed_input, db, user_input, shared, flow>>
    /\ Finish(THANK_YOU,
            Reply("Thank you for using Alfred! Your reservation has been confirmed. Is there anything else you would like assistance with?"))

ThankYou ==
    /\ Handling(THANK_YOU)
    /\ UNCHANGED <<current_restaurant_id, reservation_info, filtered_restaurants,
                   last_processed_input, db, user_input, shared, flow>>
    /\ Finish(INTENT_DETECTION, NoReply)

NormalConversation ==
    /\ Handling(NORMAL_CONVERSATION)
    /\ UNCHANGED <<current_restaurant_id, reservation_info, filtered_restaurants,
                   last_processed_input, db, user_input, shared, flow>>
    /\ Finish(INTENT_DETECTION, NoReply)

\* one call of process_state
ProcessState ==
    \/ IntentDetection
    \/ FindRestaurant
    \/ RestaurantSuggestion
    \/ RestaurantDetails
    \/ MakeReservation
    \/ NamePrompt
    \/ DateTimePrompt
    \/ PartyPrompt
    \/ ConfirmReservation
    \/ ReservationConfirmed
    \/ ErrorHandling
    \/ ReservationRetry
    \/ Support
    \/ ReservationSuccess
    \/ ThankYou
    \/ NormalConversation

Next ==
    \/ Greet
    \/ \E text \in Texts : Submit(text)
    \/ Respond
    \/ RunAborted
    \/ RunIgnored
    \/ ProcessState

Spec == Init /\ [][Next]_vars

(***************************************************************************)
(* Sessions sharing the catalog file.  Every script run of a session loads *)
(* the whole catalog (main, line 488); the run of a turn in                *)
(* RESERVATION_CONFIRMED calls add_reservation on that copy, which appends *)
(* to it and writes the whole copy back (save_database, line 361).  No     *)
(* lock is taken anywhere, and each session runs in a thread of its own.   *)
(***************************************************************************)
\* the holder name each session books under
SessName(s) == IF s = "s1" THEN T_ab ELSE T_try

\* the draft date-time of the sessions, as parse_date_time builds it
GoodDateTime == Strptime(D_good \o <<" ">> \o H_good)

\* restaurants = load_database(), at the start of a script run
Load(s) ==
    /\ sess[s].pc = "idle"
    /\ sess[s].runs < MaxRuns
    /\ sess' = [sess EXCEPT ![s] = [@ EXCEPT !.pc = "loaded", !.restaurants = db]]
    /\ UNCHANGED <<session, db, run, acked, flow>>

\* the rest of a run whose turn is handled in RESERVATION_CONFIRMED:
\* add_reservation on the copy the run loaded, save_database when it succeeds
Commit(s, rid, party) ==
    /\ sess[s].pc = "loaded"
    /\ LET r == add_reservation(sess[s].restaurants, <<rid>>, <<SessName(s)>>,
                                GoodDateTime, <<party>>)
       IN  IF r.ok
           THEN /\ db' = r.restaurants
                /\ acked' = Append(acked, [session |-> s, restaurant_id |-> rid,
                                           reservation |-> r.reservation[1]])
           ELSE UNCHANGED <<db, acked>>
    /\ sess' = [sess EXCEPT ![s] = [pc |-> "idle", restaurants |-> <<>>,
                                    runs |-> @.runs + 1]]
    /\ UNCHANGED <<session, run, flow>>

\* the rest of a run whose turn is handled in any other state: nothing is saved
EndRun(s) ==
    /\ sess[s].pc = "loaded"
    /\ sess' = [sess EXCEPT ![s] = [pc |-> "idle", restaurants |-> <<>>,
                                    runs |-> @.runs + 1]]
    /\ UNCHANGED <<session, db, run, acked, flow>>

\* one session alone on the catalog
NextSeq ==
    \/ Load("s1")
    \/ \E rid \in 1..(Len(SeedCatalog) + 1), party \in {2, 4} : Commit("s1", rid, party)
    \/ EndRun("s1")

SpecSeq == Init /\ [][NextSeq]_vars

\* two sessions on the catalog, their runs interleaved
NextConc ==
    \/ \E s \in Sessions : Load(s)
    \/ \E s \in Sessions, rid \in 1..(Len(SeedCatalog) + 1) : Commit(s, rid, 4)
    \/ \E s \in Sessions : EndRun(s)

SpecConc == Init /\ [][NextConc]_vars

(***************************************************************************)
(* Slot filling on its own: a session that was asked for the date and time *)
(* of a reservation, with every reply the oracle may give to the two       *)
(* extractors' prompts.                                                    *)
(***************************************************************************)
\* the session after NAME_PROMPT stored the text "ab": the matched id is a
\* catalog id or the id of no restaurant, as the oracle may have named it
InitSlots ==
    /\ state = DATETIME_PROMPT
    /\ chat_history = <<[role |-> "user", empty |-> FALSE],
                        [role |-> "assistant", empty |-> FALSE]>>
    /\ current_restaurant_id \in {<<1>>, <<Len(SeedCatalog) + 1>>}
    /\ reservation_info = [EmptyDraft EXCEPT !.name = <<T_ab>>]
    /\ filtered_restaurants = Stored(find_restaurants(NoParams, SeedCatalog))
    /\ last_processed_input = <<T_ab>>
    /\ db = SeedCatalog
    /\ pc = "idle"
    /\ user_input = <<>>
    /\ depth = 0
    /\ response = <<>>
    /\ exc = ""
    /\ at_start = <<>>
    /\ flow = <<>>
    /\ sess = [s \in Sessions |-> [pc |-> "idle", restaurants |-> <<>>, runs |-> 0]]
    /\ acked = <<>>

\* replies to parse_date_time's prompt: dates that exist and dates that do
\* not, times in and out of range, null, "null", "", a missing key, and a
\* weekday the oracle asserts on its own
DateTimeReplies ==
    {LlmFail, LlmNoJson, LlmBadJson}
        \cup {LlmJson([date |-> d, time |-> t, weekday |-> w]) :
                d \in {JStr(D_good),
                       JStr(<<"2", "0", "2", "4", "-", "0", "2", "-", "2", "9">>),
                       JStr(<<"2", "0", "2", "3", "-", "0", "2", "-", "2", "9">>),
                       JStr(<<"2", "0", "2", "5", "-", "0", "2", "-", "3", "0">>),
                       JStr(K_null), JStr(<<>>), JNull, JMissing},
                t \in {JStr(H_good), JStr(<<"0", "0", ":", "0", "0">>),
                       JStr(<<"2", "5", ":", "0", "0">>), JStr(<<"7", "p", "m">>),
                       JStr(K_null), JNull},
                w \in {JMissing, JStr(<<"M", "o", "n", "d", "a", "y">>)}}

\* replies to parse_party_size's prompt: numbers of either sign, with and
\* without fraction (in tenths), numerals as text, words, null, "null"
PartyReplies ==
    {LlmFail, LlmNoJson, LlmBadJson}
        \cup {LlmJson([party_size |-> v]) :
                v \in {JInt(4), JInt(0), JInt(-2), JFloat(5), JFloat(25), JFloat(-15),
                       JStr(<<"4">>), JStr(<<"-", "2">>), JStr(<<"0">>),
                       JStr(<<"f", "o", "u", "r">>), JStr(K_null), JStr(<<>>),
                       JNull, JMissing}}

NextSlots ==
    \/ \E text \in Texts : Submit(text)
    \/ Respond
    \/ RunAborted
    \/ RunIgnored
    \/ \E o \in DateTimeReplies : DateTimePromptOn(o)
    \/ \E o \in PartyReplies : PartyPromptOn(o)
    \/ ConfirmReservation
    \/ ReservationConfirmed
    \/ MakeReservation
    \/ NamePrompt
    \/ ErrorHandling
    \/ ReservationRetry
    \/ Support

SpecSlots == InitSlots /\ [][NextSlots]_vars

(***************************************************************************)
(* Search on its own: a session that was asked what to look for, over      *)
(* catalogs of every size up to MaxCatalog and every well-formed query the  *)
(* oracle may extract, followed by the turn that picks a restaurant.        *)
(***************************************************************************)
\* a restaurants.json of n restaurants, as create_database lays it out
Catalog(n) == [i \in 1..n |-> Restaurant(i)]

\* the search parameters a reply may carry: every field a str, null, the
\* str "null" or missing
Queries ==
    [cuisine : {JMissing, JNull, JStr(K_null), JStr(<<"i", "t">>), JStr(<<"T">>),
                JStr(<<"z", "z">>)},
     location : {JMissing, JStr(<<"m", "g">>), JStr(<<"1", " ", "M">>)},
     price_range : {JNull, JStr(<<"5", "0">>), JStr(<<"9">>)},
     seating : {JMissing, JStr(<<"O", "U", "T">>), JStr(<<"i", "n">>)}]

\* the session after INTENT_DETECTION asked for preferences
InitFind ==
    /\ state = FIND_RESTAURANT
    /\ chat_history = <<[role |-> "user", empty |-> FALSE],
                        [role |-> "assistant", empty |-> FALSE]>>
    /\ current_restaurant_id = <<>>
    /\ reservation_info = EmptyDraft
    /\ filtered_restaurants = <<>>
    /\ last_processed_input = <<T_try>>
    /\ db \in {Catalog(n) : n \in 0..MaxCatalog}
    /\ pc = "idle"
    /\ user_input = <<>>
    /\ depth = 0
    /\ response = <<>>
    /\ exc = ""
    /\ at_start = <<>>
    /\ flow = <<>>
    /\ sess = [s \in Sessions |-> [pc |-> "idle", restaurants |-> <<>>, runs |-> 0]]
    /\ acked = <<>>

NextFind ==
    \/ \E text \in {T_ab, <<"c", "d", " ", "a", "b">>, <<"b", "o", "o", "k", " ", "E", "F">>,
                    <<"n", "o">>} : Submit(text)
    \/ Respond
    \/ RunAborted
    \/ RunIgnored
    \/ \E q \in Queries : FindRestaurantOn(LlmJson(q))
    \/ \E o \in {LlmFail, LlmNoJson, LlmBadJson} : FindRestaurantOn(o)
    \/ RestaurantSuggestion

SpecFind == InitFind /\ [][NextFind]_vars

(***************************************************************************)
(* Properties                                                              *)
(***************************************************************************)

\* C1. A turn whose text equals the text of the last processed turn is a
\* no-op: the run goes nowhere near process_state, and the FSM state, the
\* draft, the matched restaurant id, the stored result set, the history, the
\* last processed text and the catalog are what they were, both when the run
\* starts and when it ends.  So the second of two successive submissions of a
\* text causes no transition and no commit.
C1_DuplicateIsNoOp ==
    [][ /\ (pc = "idle" /\ user_input' # <<>> /\ user_input' = last_processed_input)
            => (pc' = "ignored" /\ UNCHANGED <<session, db>>)
        /\ (pc = "ignored") => (pc' = "idle" /\ UNCHANGED <<session, db>>)
      ]_vars

\* the text that committed a reservation is submitted again
C1_Witness == pc = "ignored" /\ state = RESERVATION_SUCCESS /\ SumLen(db) = 1

\* C2. Whenever process_state handles RESERVATION_CONFIRMED, the only place
\* that calls add_reservation, the three fields of the draft are set and the
\* matched restaurant id is not None.
C2_TransactionHasFullDraft ==
    Handling(RESERVATION_CONFIRMED)
        => /\ reservation_info.name # <<>>
           /\ reservation_info.datetime # <<>>
           /\ reservation_info.party_size # <<>>
           /\ current_restaurant_id # <<>>

\* a turn handled in RESERVATION_CONFIRMED has committed a reservation
C2_Witness ==
    /\ pc = "respond"
    /\ at_start # <<>>
    /\ at_start[1].state = RESERVATION_CONFIRMED
    /\ state = RESERVATION_SUCCESS
    /\ SumLen(db) = SumLen(at_start[1].db) + 1

\* C3. A turn accepted in CONFIRM_RESERVATION whose text is affirmative, the
\* matched restaurant being in the catalog, is answered with the session in
\* RESERVATION_SUCCESS and the restaurant's reservation list one entry longer,
\* the new entry confirmed and carrying the draft's name, date-time and party
\* size.
C3_ConfirmTurnCommits ==
    (/\ pc = "respond"
     /\ at_start # <<>>
     /\ at_start[1].state = CONFIRM_RESERVATION
     /\ IsAffirmative(user_input[1])
     /\ IndexOfId(at_start[1].db, current_restaurant_id) # 0)
        => /\ state = RESERVATION_SUCCESS
           /\ LET i == IndexOfId(at_start[1].db, current_restaurant_id)
                  old == at_start[1].db[i].reservations
                  new == db[i].reservations
              IN  /\ Len(new) = Len(old) + 1
                  /\ SubSeq(new, 1, Len(old)) = old
                  /\ new[Len(new)].status = "confirmed"
                  /\ new[Len(new)].name = reservation_info.name
                  /\ new[Len(new)].datetime = StrftimeYmdHM(reservation_info.datetime[1])
                  /\ new[Len(new)].party_size = reservation_info.party_size

\* C4. Three turns after a Restaurant-Suggestion turn put the session in
\* MAKE_RESERVATION, each of the three answered and each moving the session
\* on, the session is in CONFIRM_RESERVATION, the draft's name is the text of
\* the first of them, and its date-time and party size are set.
C4_SlotFillingOrder ==
    (pc = "idle" /\ flow # <<>> /\ flow[1].n = 3)
        => /\ state = CONFIRM_RESERVATION
           /\ reservation_info.name = flow[1].first
           /\ reservation_info.datetime # <<>>
           /\ reservation_info.party_size # <<>>

\* C5. One session alone on the catalog: the reservations of every restaurant
\* carry the ids 1..n in list order, the list holds exactly the commits made
\* on that restaurant, and the k-th commit on a restaurant got the id k
\* whatever was committed on the other restaurants in between.
C5_IdsCountPerRestaurant ==
    /\ \A i \in 1..Len(db) :
          /\ \A k \in 1..Len(db[i].reservations) : db[i].reservations[k].id = k
          /\ Len(db[i].reservations) =
                Cardinality({j \in 1..Len(acked) : acked[j].restaurant_id = db[i].id})
    /\ \A j \in 1..Len(acked) :
          /\ acked[j].reservation.id =
                Cardinality({m \in 1..j : acked[m].restaurant_id = acked[j].restaurant_id})
          /\ LET i == IndexOfId(db, <<acked[j].restaurant_id>>)
             IN  db[i].reservations[acked[j].reservation.id] = acked[j].reservation

\* two commits on the first restaurant with a commit on the second in between
C5_Witness ==
    /\ Len(acked) = 3
    /\ acked[1].restaurant_id = 1
    /\ acked[2].restaurant_id = 2
    /\ acked[3].restaurant_id = 1
    /\ Len(db[1].reservations) = 2
    /\ Len(db[2].reservations) = 1

\* C6. Two sessions on one catalog file: every reservation a run committed
\* is in the file, whatever the interleaving of the runs; each restaurant's
\* list holds as many reservations as were committed on it, each with the
\* name, date-time and party size it was committed with.
C6_NoCommitLost ==
    /\ \A i \in 1..Len(db) :
          Len(db[i].reservations) =
              Cardinality({j \in 1..Len(acked) : acked[j].restaurant_id = db[i].id})
    /\ \A j \in 1..Len(acked) :
          LET i == IndexOfId(db, <<acked[j].restaurant_id>>)
          IN  \E k \in 1..Len(db[i].reservations) :
                 /\ db[i].reservations[k].name = acked[j].reservation.name
                 /\ db[i].reservations[k].datetime = acked[j].reservation.datetime
                 /\ db[i].reservations[k].party_size = acked[j].reservation.party_size

\* C7. No turn runs process_state into the interpreter's recursion limit: the
\* calls process_state makes on itself within a turn come to an end with a
\* reply.
C7_TurnTerminates == exc # "RecursionError"

C9_OracleFailureContained == exc # "OracleError"

\* C10. No turn handled in RESTAURANT_SUGGESTION or in FIND_RESTAURANT ends
\* with an AttributeError raised on what the oracle replied: a reply without
\* a JSON object and a field of the wrong type count as absent.
C10_MalformedReplyContained ==
    (pc = "raised" /\ state \in {RESTAURANT_SUGGESTION, FIND_RESTAURANT})
        => exc # "AttributeError"

\* C11. The party size in the draft, and in every reservation of the
\* catalog, is a positive integer: a reply whose party_size is zero,
\* negative, null, "null" or no number writes nothing to the draft.
C11_PartySizePositive ==
    /\ reservation_info.party_size # <<>> => reservation_info.party_size[1] > 0
    /\ \A i \in 1..Len(db) : \A k \in 1..Len(db[i].reservations) :
          /\ db[i].reservations[k].party_size # <<>>
          /\ db[i].reservations[k].party_size[1] > 0

\* C12. When no restaurant of the catalog has the matched id, add_reservation
\* returns (False, None) and leaves every reservation list as it was, nothing
\* is saved, and the turn handled in RESERVATION_CONFIRMED is answered with
\* the apology in ERROR_HANDLING, never in RESERVATION_SUCCESS.
C12_FailedCommit ==
    [][ (/\ Handling(RESERVATION_CONFIRMED)
         /\ \A i \in 1..Len(db) : <<db[i].id>> # current_restaurant_id)
            => LET r == add_reservation(db, current_restaurant_id,
                            reservation_info.name, reservation_info.datetime,
                            reservation_info.party_size)
               IN  /\ r.ok = FALSE
                   /\ r.reservation = <<>>
                   /\ r.restaurants = db
                   /\ db' = db
                   /\ state' = ERROR_HANDLING
                   /\ pc' = "respond"
                   /\ response' =
                         <<Reply("I'm sorry, there was an error processing your reservation. Would you like to try again or speak with customer support?")>>
      ]_vars

\* a turn handled in RESERVATION_CONFIRMED with the id of no restaurant
C12_Witness ==
    /\ pc = "respond"
    /\ at_start # <<>>
    /\ at_start[1].state = RESERVATION_CONFIRMED
    /\ state = ERROR_HANDLING
    /\ current_restaurant_id = <<Len(db) + 1>>
    /\ db = at_start[1].db

\* C13. The draft is empty once a turn has committed it (the session is in
\* RESERVATION_SUCCESS) and once a turn has sent the session back to
\* MAKE_RESERVATION, from a CONFIRM_RESERVATION turn that was not affirmative
\* or from RESERVATION_RETRY.
C13_DraftDiscarded ==
    (/\ pc = "respond"
     /\ at_start # <<>>
     /\ \/ at_start[1].state = RESERVATION_CONFIRMED /\ state = RESERVATION_SUCCESS
        \/ at_start[1].state \in {CONFIRM_RESERVATION, RESERVATION_RETRY}
             /\ state = MAKE_RESERVATION)
        => reservation_info = EmptyDraft

\* The search is a function of the query and the catalog alone: the claims
\* on it are evaluated where the turn "ab" is about to be searched, over every
\* query of Queries and the catalog of that state.

\* the restaurant passes every present field of the query: cuisine in the
\* cuisine, location in the location or the address, price in the price tier,
\* seating in some seating tag, all without regard to case
Satisfies(q, r) ==
    /\ Present(q.cuisine) => IsSubstr(Lower(q.cuisine.s), Lower(r.cuisine))
    /\ Present(q.location) =>
          \/ IsSubstr(Lower(q.location.s), Lower(r.location))
          \/ IsSubstr(Lower(q.location.s), Lower(r.address))
    /\ Present(q.price_range) => IsSubstr(Lower(q.price_range.s), Lower(r.price_range))
    /\ Present(q.seating) =>
          \E i \in 1..Len(r.seating_arrangements) :
              IsSubstr(Lower(q.seating.s), Lower(r.seating_arrangements[i]))

\* res lists k restaurants of pool (all of pool if it has fewer), each once,
\* and no restaurant of pool left out is rated above one that is listed
TopRated(res, pool, k) ==
    /\ Len(res) = (IF Len(pool) < k THEN Len(pool) ELSE k)
    /\ \A i \in 1..Len(res) : \E j \in 1..Len(pool) : pool[j] = res[i]
    /\ \A i, j \in 1..Len(res) : i # j => res[i].id # res[j].id
    /\ \A j \in 1..Len(pool) :
          (\A i \in 1..Len(res) : res[i] # pool[j])
              => \A i \in 1..Len(res) : pool[j].rating <= res[i].rating

\* C14. Whatever query the oracle extracts, the search of a non-empty catalog
\* returns a non-empty list, the result is empty only for the empty catalog,
\* and when no restaurant passes the filters the result is the 3 highest-rated
\* restaurants of the catalog (the whole catalog if it has fewer than 3).
C14_NeverEmpty ==
    (Handling(FIND_RESTAURANT) /\ user_input = <<T_ab>>) =>
        \A q \in Queries :
            LET res == find_restaurants(q, db)
            IN  /\ db # <<>> => res # <<>>
                /\ res = <<>> => db = <<>>
                /\ (\A j \in 1..Len(db) : ~Satisfies(q, db[j])) => TopRated(res, db, 3)

\* a search of six restaurants that none passes has stored the three rated 4.5
C14_Witness ==
    /\ pc = "respond"
    /\ state = RESTAURANT_SUGGESTION
    /\ Len(db) = 6
    /\ [i \in 1..Len(filtered_restaurants) |-> filtered_restaurants[i].id] = <<2, 3, 6>>

\* C15. For a query whose four fields are all absent the search returns the
\* 5 highest-rated restaurants in descending order of rating when the catalog
\* has more than 5, and the catalog as it is when it has 5 or fewer.
C15_AllAbsent ==
    (Handling(FIND_RESTAURANT) /\ user_input = <<T_ab>>) =>
        \A q \in Queries :
            (~Present(q.cuisine) /\ ~Present(q.location)
                    /\ ~Present(q.price_range) /\ ~Present(q.seating))
                => LET res == find_restaurants(q, db)
                   IN  IF Len(db) > 5
                       THEN /\ TopRated(res, db, 5)
                            /\ \A i \in 1..(Len(res) - 1) : res[i].rating >= res[i + 1].rating
                       ELSE res = db

\* a reply without JSON, hence a query of no field, on six restaurants: the
\* five stored are the three rated 4.5 and the two rated 4.1
C15_Witness ==
    /\ pc = "respond"
    /\ state = RESTAURANT_SUGGESTION
    /\ Len(db) = 6
    /\ [i \in 1..Len(filtered_restaurants) |-> filtered_restaurants[i].id] = <<2, 3, 6, 1, 5>>

\* C16. A reply holding a date YYYY-MM-DD of the calendar and a time HH:MM
\* of the day is extracted as exactly that date and time, and the weekday
\* named for it, by strftime and by the extractor's own table alike, is the
\* one Zeller's congruence gives for the date, whatever weekday the reply
\* asserts; any other reply that is read yields absent with a message that
\* is not empty.  The turn that extracted a date stores it and shows it
\* through strftime.
C16_WeekdayFromDate ==
    LET MonthLen(y, m) ==
            IF m = 2
            THEN (IF y % 400 = 0 \/ (y % 4 = 0 /\ y % 100 # 0) THEN 29 ELSE 28)
            ELSE <<31, 0, 31, 30, 31, 30, 31, 31, 30, 31, 30, 31>>[m]
        \* the dates and the times of day a text is the print of
        DatesOf(s) ==
            IF Len(s) # 10 THEN {}
            ELSE UNION {{[y |-> y, m |-> m, d |-> d] :
                            d \in {d \in 1..MonthLen(y, m) : SubSeq(s, 9, 10) = Fmt2(d)}} :
                         y \in {y \in 2023..2025 : SubSeq(s, 1, 5) = Fmt4(y) \o <<"-">>},
                         m \in {m \in 1..12 : SubSeq(s, 6, 8) = Fmt2(m) \o <<"-">>}}
        TimesOf(s) ==
            IF Len(s) # 5 THEN {}
            ELSE {[H |-> H, M |-> M] :
                     H \in {H \in 0..23 : SubSeq(s, 1, 3) = Fmt2(H) \o <<":">>},
                     M \in {M \in 0..59 : SubSeq(s, 4, 5) = Fmt2(M)}}
        \* Zeller's congruence: 0 = Saturday
        Zeller(y, m, d) ==
            LET a == IF m < 3 THEN y - 1 ELSE y
                mm == IF m < 3 THEN m + 12 ELSE m
                h == (d + ((13 * (mm + 1)) \div 5) + a + (a \div 4) - (a \div 100)
                        + (a \div 400)) % 7
            IN  <<"Saturday", "Sunday", "Monday", "Tuesday", "Wednesday", "Thursday",
                  "Friday">>[h + 1]
        shown == Reply("Got it! Reservation for {datetime_obj.strftime('%A, %B %d at %I:%M %p')}. How many people will be in your party?")
    IN  /\ Handling(DATETIME_PROMPT) =>
              \A o \in DateTimeReplies \ {LlmFail} :
                  LET r == parse_date_time(o)
                      ds == IF o.kind = "json" /\ o.obj.date.t = "str"
                            THEN DatesOf(o.obj.date.s) ELSE {}
                      ts == IF o.kind = "json" /\ o.obj.time.t = "str"
                            THEN TimesOf(o.obj.time.s) ELSE {}
                  IN  IF ds # {} /\ ts # {}
                      THEN /\ r.dt # <<>>
                           /\ [y |-> r.dt[1].y, m |-> r.dt[1].m, d |-> r.dt[1].d] \in ds
                           /\ [H |-> r.dt[1].H, M |-> r.dt[1].M] \in ts
                           /\ StrftimeA(r.dt[1]) = Zeller(r.dt[1].y, r.dt[1].m, r.dt[1].d)
                           /\ weekday_names[Weekday(r.dt[1]) + 1] = StrftimeA(r.dt[1])
                           /\ r = parse_date_time(LlmJson([o.obj EXCEPT !.weekday = JMissing]))
                      ELSE /\ r.dt = <<>>
                           /\ ~IsEmptyStr(r.msg)
        /\ (/\ pc = "respond"
            /\ at_start # <<>>
            /\ at_start[1].state = DATETIME_PROMPT
            /\ response # <<>>)
              => IF state = PARTY_PROMPT
                 THEN /\ reservation_info.datetime # <<>>
                      /\ response = <<shown>>
                      /\ LET dt == reservation_info.datetime[1]
                         IN  StrftimeA(dt) = Zeller(dt.y, dt.m, dt.d)
                 ELSE /\ state = DATETIME_PROMPT
                      /\ reservation_info.datetime = at_start[1].reservation_info.datetime
                      /\ ~IsEmptyStr(response[1])

\* the turn that was told 2024-02-29 19:30, with "Monday" asserted or not,
\* stored that Thursday
C16_Witness ==
    /\ pc = "respond"
    /\ at_start # <<>>
    /\ at_start[1].state = DATETIME_PROMPT
    /\ state = PARTY_PROMPT
    /\ reservation_info.datetime = <<[y |-> 2024, m |-> 2, d |-> 29, H |-> 19, M |-> 30]>>
    /\ StrftimeA(reservation_info.datetime[1]) = "Thursday"

\* C17. When some restaurant passes every present field, each restaurant
\* returned passes every present field and is a restaurant of the catalog,
\* and the four filters applied in any of their 24 orders leave the same list.
C17_Conjunctive ==
    (Handling(FIND_RESTAURANT) /\ user_input = <<T_ab>>) =>
        LET orders == {o \in [1..4 -> 1..4] : \A a, b \in 1..4 : a # b => o[a] # o[b]}
        IN  \A q \in Queries :
                (\E j \in 1..Len(db) : Satisfies(q, db[j]))
                    => LET res == find_restaurants(q, db)
                           F(k, rs) == CASE k = 1 -> FilterCuisine(q, rs)
                                         [] k = 2 -> FilterLocation(q, rs)
                                         [] k = 3 -> FilterPrice(q, rs)
                                         [] k = 4 -> FilterSeating(q, rs)
                       IN  /\ \A i \in 1..Len(res) :
                                /\ Satisfies(q, res[i])
                                /\ \E j \in 1..Len(db) : db[j] = res[i]
                           /\ LET pass == SelectSeq(db, LAMBDA r : Satisfies(q, r))
                              IN  \A o \in orders :
                                     F(o[4], F(o[3], F(o[2], F(o[1], db)))) = pass

\* cuisine "it" and seating "OUT" together leave the fourth restaurant alone
C17_Witness ==
    /\ pc = "respond"
    /\ state = RESTAURANT_SUGGESTION
    /\ Len(db) = 6
    /\ [i \in 1..Len(filtered_restaurants) |-> filtered_restaurants[i].id] = <<4>>

\* C18. The search returns at most 5 restaurants; when more than 5 pass the
\* filters the 5 returned are top-rated among those that pass and are listed
\* in descending order of rating; the catalog is what it was before the turn;
\* the result set the session stores never has more than 5 entries.
C18_AtMostFiveRanked ==
    /\ Len(filtered_restaurants) <= 5
    /\ at_start # <<>> => db = at_start[1].db
    /\ (Handling(FIND_RESTAURANT) /\ user_input = <<T_ab>>) =>
          \A q \in Queries :
              LET res == find_restaurants(q, db)
                  pass == SelectSeq(db, LAMBDA r : Satisfies(q, r))
              IN  /\ Len(res) <= 5
                  /\ Len(pass) > 5 =>
                        /\ TopRated(res, pass, 5)
                        /\ \A i \in 1..(Len(res) - 1) : res[i].rating >= res[i + 1].rating

\* cuisine "T" is in every cuisine: six pass, five are stored, the one rated
\* 3.8 is left out
C18_Witness ==
    /\ pc = "respond"
    /\ state = RESTAURANT_SUGGESTION
    /\ Len(db) = 6
    /\ Len(filtered_restaurants) = 5
    /\ \A i \in 1..5 : filtered_restaurants[i].id # 4
    /\ \A i \in 1..4 : filtered_restaurants[i].rating >= filtered_restaurants[i + 1].rating

C20_DirectMatchPreferred ==
    [][ Handling(RESTAURANT_SUGGESTION) =>
            LET hits == {i \in 1..Len(filtered_restaurants) :
                            IsSubstr(Lower(filtered_restaurants[i].name), Lower(user_input[1]))}
                named == {<<o.obj.restaurant_id.n>> :
                            o \in {o \in MatchOracle : /\ o.kind = "json"
                                                       /\ o.obj.restaurant_id.t = "int"
                                                       /\ o.obj.restaurant_id.n # 0}}
            IN  IF hits # {}
                THEN /\ \E i \in hits :
                          /\ \A j \in hits : i <= j
                          /\ current_restaurant_id' = <<filtered_restaurants[i].id>>
                     /\ exc' # "AttributeError"
                     /\ pc' = "respond" => state' \in {MAKE_RESERVATION, RESTAURANT_DETAILS}
                ELSE /\ current_restaurant_id' \in {current_restaurant_id} \cup named
                     /\ (pc' = "respond" /\ state' \in {MAKE_RESERVATION, RESTAURANT_DETAILS})
                            => current_restaurant_id' \in named
      ]_vars

\* the text "cd ab" names four of the five restaurants stored in the order
\* 2, 3, 6, 1, 5: the second restaurant, listed first, is matched
C20_Witness ==
    /\ pc = "respond"
    /\ at_start # <<>>
    /\ at_start[1].state = RESTAURANT_SUGGESTION
    /\ [i \in 1..Len(filtered_restaurants) |-> filtered_restaurants[i].id] = <<2, 3, 6, 1, 5>>
    /\ user_input = <<<<"c", "d", " ", "a", "b">>>>
    /\ current_restaurant_id = <<2>>
    /\ state = RESTAURANT_DETAILS

\* C21. In RESTAURANT_SUGGESTION, when no stored name is in the text, the
\* oracle's reply names no restaurant (null, 0, a missing key, or a reply that
\* does not decode) and the text holds "reserv" or "book", the session stays
\* in RESTAURANT_SUGGESTION, the matched id, the result set and the draft are
\* as before, and the reply asks for the restaurant's name.
C21_AmbiguityStays ==
    [][ Handling(RESTAURANT_SUGGESTION) =>
            LET text == Lower(user_input[1])
                booking == \/ IsSubstr(<<"r", "e", "s", "e", "r", "v">>, text)
                           \/ IsSubstr(<<"b", "o", "o", "k">>, text)
                hits == {i \in 1..Len(filtered_restaurants) :
                            IsSubstr(Lower(filtered_restaurants[i].name), text)}
                NamesNone(o) ==
                    \/ o.kind = "badjson"
                    \/ /\ o.kind = "json"
                       /\ \/ o.obj.restaurant_id.t \in {"null", "missing"}
                          \/ o.obj.restaurant_id.t = "int" /\ o.obj.restaurant_id.n = 0
            IN  \A o \in MatchOracle :
                    (booking /\ hits = {} /\ NamesNone(o) /\ RestaurantSuggestionOn(o))
                        => /\ state' = RESTAURANT_SUGGESTION
                           /\ current_restaurant_id' = current_restaurant_id
                           /\ filtered_restaurants' = filtered_restaurants
                           /\ reservation_info' = reservation_info
                           /\ pc' = "respond"
                           /\ response' =
                                 <<Reply("Which of these restaurants would you like to make a reservation for? Please specify the restaurant name clearly.")>>
      ]_vars

\* the turn "book EF" on a result set that holds no "Ef", the oracle naming
\* none: answered in place
C21_Witness ==
    /\ pc = "respond"
    /\ at_start # <<>>
    /\ at_start[1].state = RESTAURANT_SUGGESTION
    /\ state = RESTAURANT_SUGGESTION
    /\ user_input = <<<<"b", "o", "o", "k", " ", "E", "F">>>>
    /\ \A i \in 1..Len(filtered_restaurants) : filtered_restaurants[i].name # <<"E", "f">>
    /\ filtered_restaurants # <<>>
    /\ response =
          <<Reply("Which of these restaurants would you like to make a reservation for? Please specify the restaurant name clearly.")>>
    /\ current_restaurant_id = at_start[1].current_restaurant_id

\* C22. In RESTAURANT_DETAILS, MAKE_RESERVATION, the three prompts,
\* CONFIRM_RESERVATION, RESERVATION_CONFIRMED, ERROR_HANDLING and
\* RESERVATION_RETRY the matched restaurant id is not None; a turn taken in
\* INTENT_DETECTION with no matched id is answered in FIND_RESTAURANT, in
\* RESTAURANT_SUGGESTION (after the search) or in NORMAL_CONVERSATION.
C22_FlowHasMatchedId ==
    /\ state \in {RESTAURANT_DETAILS, MAKE_RESERVATION, NAME_PROMPT, DATETIME_PROMPT,
                  PARTY_PROMPT, CONFIRM_RESERVATION, RESERVATION_CONFIRMED,
                  ERROR_HANDLING, RESERVATION_RETRY}
          => current_restaurant_id # <<>>
    /\ (/\ at_start # <<>>
        /\ at_start[1].state = INTENT_DETECTION
        /\ at_start[1].current_restaurant_id = <<>>
        /\ pc = "respond")
          => /\ state \in {FIND_RESTAURANT, RESTAURANT_SUGGESTION, NORMAL_CONVERSATION}
             /\ current_restaurant_id = <<>>

\* a reservation intent with no matched restaurant was sent to the search
C22_Witness ==
    /\ pc = "respond"
    /\ at_start # <<>>
    /\ at_start[1].state = INTENT_DETECTION
    /\ current_restaurant_id = <<>>
    /\ state = FIND_RESTAURANT
    /\ response =
          <<Reply("I'd be happy to help you make a reservation. First, let's find a restaurant. Do you have any preferences for cuisine, location, or price range?")>>

\* C23. The catalog grows only in a turn that starts in RESERVATION_CONFIRMED,
\* by one reservation, and that turn leaves RESERVATION_CONFIRMED, so that a
\* second commit needs a second confirmation; RESERVATION_CONFIRMED is entered
\* only by a CONFIRM_RESERVATION turn whose text holds yes, correct or
\* confirm, and a CONFIRM_RESERVATION turn without them is answered in
\* MAKE_RESERVATION; CONFIRM_RESERVATION is entered only by a PARTY_PROMPT
\* turn that stored a party size, PARTY_PROMPT only by a DATETIME_PROMPT turn
\* that stored a date-time, DATETIME_PROMPT only by a NAME_PROMPT turn that
\* stored its text as the name.
C23_CommitAfterConfirm ==
    at_start # <<>> =>
        LET s0 == at_start[1].state
            text == Lower(user_input[1])
            affirmative == \/ IsSubstr(<<"y", "e", "s">>, text)
                           \/ IsSubstr(<<"c", "o", "r", "r", "e", "c", "t">>, text)
                           \/ IsSubstr(<<"c", "o", "n", "f", "i", "r", "m">>, text)
        IN  /\ db # at_start[1].db
                  => /\ s0 = RESERVATION_CONFIRMED
                     /\ state = RESERVATION_SUCCESS
                     /\ SumLen(db) = SumLen(at_start[1].db) + 1
            /\ (s0 = RESERVATION_CONFIRMED /\ pc # "proc")
                  => state \in {RESERVATION_SUCCESS, ERROR_HANDLING}
            /\ (state = RESERVATION_CONFIRMED /\ s0 # RESERVATION_CONFIRMED)
                  => s0 = CONFIRM_RESERVATION /\ affirmative
            /\ (s0 = CONFIRM_RESERVATION /\ pc # "proc" /\ ~affirmative)
                  => state = MAKE_RESERVATION
            /\ (state = CONFIRM_RESERVATION /\ s0 # CONFIRM_RESERVATION)
                  => /\ s0 = PARTY_PROMPT
                     /\ reservation_info.party_size # <<>>
                     /\ reservation_info.datetime # <<>>
                     /\ reservation_info.name # <<>>
            /\ (state = PARTY_PROMPT /\ s0 # PARTY_PROMPT)
                  => s0 = DATETIME_PROMPT /\ reservation_info.datetime # <<>>
            /\ (state = DATETIME_PROMPT /\ s0 # DATETIME_PROMPT)
                  => s0 = NAME_PROMPT /\ reservation_info.name = user_input

\* the turn after "Yes" committed the draft named "ab" to the first restaurant
C23_Witness ==
    /\ pc = "respond"
    /\ at_start # <<>>
    /\ at_start[1].state = RESERVATION_CONFIRMED
    /\ state = RESERVATION_SUCCESS
    /\ at_start[1].db = SeedCatalog
    /\ Len(db[1].reservations) = 1
    /\ db[1].reservations[1].name = <<T_ab>>
    /\ user_input # <<<<"Y", "e", "s">>>>

\* How far a session is from INTENT_DETECTION: the number of handler calls
\* still needed, counted along the shortest way the model's texts allow, and
\* within one call's distance the phase of the script run.  A turn whose
\* text sends the session back to the name prompt, or that would leave
\* CONFIRM_RESERVATION with no confirming text left to submit, counts from
\* where it leads.
Distance ==
    LET text == IF pc = "proc" THEN Lower(user_input[1]) ELSE <<>>
        booking == \/ IsSubstr(<<"r", "e", "s", "e", "r", "v">>, text)
                   \/ IsSubstr(<<"b", "o", "o", "k">>, text)
        again == \/ IsSubstr(<<"t", "r", "y">>, text)
                 \/ IsSubstr(<<"a", "g", "a", "i", "n">>, text)
        Confirms(t) == \/ IsSubstr(<<"y", "e", "s">>, Lower(t))
                       \/ IsSubstr(<<"c", "o", "r", "r", "e", "c", "t">>, Lower(t))
                       \/ IsSubstr(<<"c", "o", "n", "f", "i", "r", "m">>, Lower(t))
        \* a confirming text that is not the one processed last
        canConfirm == \E t \in Texts : Confirms(t) /\ last_processed_input # <<t>>
        calls ==
            CASE state = INTENT_DETECTION -> 0
              [] state \in {GREETING, SUPPORT, THANK_YOU, NORMAL_CONVERSATION} -> 1
              [] state = RESTAURANT_DETAILS -> IF pc = "proc" /\ booking THEN 9 ELSE 1
              [] state = RESTAURANT_SUGGESTION -> IF pc = "proc" /\ booking THEN 9 ELSE 2
              [] state = FIND_RESTAURANT -> 3
              [] state = RESERVATION_SUCCESS -> 2
              [] state = ERROR_HANDLING -> IF pc = "proc" /\ again THEN 10 ELSE 2
              [] state = RESERVATION_CONFIRMED -> 3
              [] state = CONFIRM_RESERVATION ->
                    IF pc = "proc" THEN (IF Confirms(user_input[1]) THEN 4 ELSE 9)
                    ELSE IF canConfirm THEN 4 ELSE 10
              [] state = PARTY_PROMPT -> IF pc = "proc" /\ ~canConfirm THEN 11 ELSE 5
              [] state = DATETIME_PROMPT -> 6
              [] state = NAME_PROMPT -> 7
              [] state = MAKE_RESERVATION -> 8
              [] state = RESERVATION_RETRY -> 9
              [] OTHER -> 12
        phase == CASE pc = "proc" -> 0 [] pc = "idle" -> 1 [] OTHER -> 2
    IN  3 * calls + phase

\* C24. A turn taken in SUPPORT is answered in INTENT_DETECTION; a turn taken
\* in THANK_YOU or NORMAL_CONVERSATION is handed on to INTENT_DETECTION and
\* answered by what follows it; a turn taken in RESERVATION_SUCCESS is
\* answered in THANK_YOU; and from every reachable state but
\* INTENT_DETECTION some step brings the session nearer to INTENT_DETECTION,
\* so that some sequence of turns returns it there (the one state left out
\* is RESERVATION_CONFIRMED with the catalog at the model's bound, where the
\* model accepts no turn).
C24_NoTerminalState ==
    [](/\ at_start # <<>> =>
             LET s0 == at_start[1].state
             IN  /\ (s0 = SUPPORT /\ pc # "proc") => state = INTENT_DETECTION /\ pc = "respond"
                 /\ (s0 \in {THANK_YOU, NORMAL_CONVERSATION} /\ pc = "proc" /\ depth = 1)
                       => state = INTENT_DETECTION
                 /\ (s0 \in {THANK_YOU, NORMAL_CONVERSATION} /\ pc = "respond")
                       => state \notin {INTENT_DETECTION, THANK_YOU}
                 /\ (s0 = RESERVATION_SUCCESS /\ pc # "proc")
                       => state = THANK_YOU /\ pc = "respond"
       /\ (state # INTENT_DETECTION /\ ~(state = RESERVATION_CONFIRMED /\ ~HasRoom))
             => IF Handling(DATETIME_PROMPT)
                THEN \* the reply {"date": "2025-06-14", "time": "19:30"}, which
                     \* parse_date_time reads as that date and time
                     LET o == LlmJson([date |-> JStr(D_good), time |-> JStr(H_good)])
                         r == [dt |-> GoodDateTime, msg |-> Reply("")]
                     IN  /\ o \in DateTimeOracle
                         /\ parse_date_time(o) = r
                         /\ ENABLED (DateTimeGiven(r) /\ Distance' < Distance)
                ELSE ENABLED (Next /\ Distance' < Distance))

\* the turn after the commit was answered in THANK_YOU, and the turn after
\* that was handed to INTENT_DETECTION
C24_Witness ==
    /\ pc = "proc"
    /\ depth = 1
    /\ at_start # <<>>
    /\ at_start[1].state = THANK_YOU
    /\ state = INTENT_DETECTION
    /\ SumLen(db) = 1

\* ---------------------------------------------------------------------
\* C25: within a session the catalog is append-only.  No step removes or
\* modifies a reservation or changes a restaurant field other than its
\* reservation list; the catalog changes only in a turn handled in
\* RESERVATION_CONFIRMED, by one reservation appended to the list of the
\* restaurant with the matched id; and the transaction does the same on a
\* catalog that already holds reservations.

\* catalog `after` is catalog `before` with reservations appended only
AppendOnly(before, after) ==
    /\ Len(after) = Len(before)
    /\ \A i \in 1..Len(before) :
          /\ [after[i] EXCEPT !.reservations = <<>>]
                = [before[i] EXCEPT !.reservations = <<>>]
          /\ Len(after[i].reservations) >= Len(before[i].reservations)
          /\ SubSeq(after[i].reservations, 1, Len(before[i].reservations))
                = before[i].reservations

\* `after` is `before` with exactly one reservation more, in the list of
\* the restaurant with id rid
OneAppended(before, after, rid) ==
    /\ AppendOnly(before, after)
    /\ \E i \in 1..Len(before) :
          /\ <<before[i].id>> = rid
          /\ Len(after[i].reservations) = Len(before[i].reservations) + 1
          /\ \A j \in 1..Len(before) : j # i => after[j] = before[j]

\* the catalog with an earlier reservation in one restaurant's list
EarlierBooked ==
    {db} \cup
    { [db EXCEPT ![k].reservations =
           <<[id |-> 1, name |-> <<"Yes">>, datetime |-> StrftimeYmdHM(GoodDateTime[1]),
              party_size |-> <<2>>, status |-> "confirmed"]>> \o @]
      : k \in 1..Len(db) }

C25_CatalogAppendOnly ==
    [][ /\ AppendOnly(db, db')
        /\ db' # db =>
              /\ Handling(RESERVATION_CONFIRMED)
              /\ OneAppended(db, db', current_restaurant_id)
        /\ ~Handling(RESERVATION_CONFIRMED) => db' = db
        /\ (Handling(RESERVATION_CONFIRMED) /\ reservation_info.datetime # <<>>) =>
              \A c \in EarlierBooked :
                 LET r == add_reservation(c, current_restaurant_id,
                              reservation_info.name, reservation_info.datetime,
                              reservation_info.party_size)
                 IN  IF r.ok THEN OneAppended(c, r.restaurants, current_restaurant_id)
                             ELSE r.restaurants = c
      ]_vars

C25_Witness ==
    /\ pc = "respond"
    /\ state = RESERVATION_SUCCESS
    /\ at_start # <<>>
    /\ at_start[1].state = RESERVATION_CONFIRMED
    /\ at_start[1].db = SeedCatalog
    /\ Len(db[2].reservations) = 1
    /\ db[1] = SeedCatalog[1]

\* ---------------------------------------------------------------------
\* C26: after the one-time greeting the session state is one of the
\* sixteen orchestrator states whenever a turn starts or ends or no run is
\* in progress; GREETING is the state only before the greeting, and
\* DataCollection, NameReceived, DateTimeReceived, PartyReceived and
\* DATABASE_PUSH are never stored, the provisional DATABASE_PUSH of the
\* commit handler included.

\* the states process_state has a handler for
OrchestratorStates ==
    {INTENT_DETECTION, FIND_RESTAURANT, RESTAURANT_SUGGESTION, RESTAURANT_DETAILS,
     MAKE_RESERVATION, NAME_PROMPT, DATETIME_PROMPT, PARTY_PROMPT,
     CONFIRM_RESERVATION, RESERVATION_CONFIRMED, RESERVATION_SUCCESS,
     ERROR_HANDLING, RESERVATION_RETRY, SUPPORT, THANK_YOU, NORMAL_CONVERSATION}

\* the states of class State no handler is written for
UnusedStates ==
    {GREETING, "DataCollection", "NameReceived", "DateTimeReceived",
     "PartyReceived", DATABASE_PUSH}

C26_OrchestratorStatesOnly ==
    /\ Cardinality(OrchestratorStates) = 16
    /\ OrchestratorStates \cap UnusedStates = {}
    /\ state \in OrchestratorStates \cup {GREETING}
    /\ state = GREETING <=> chat_history = <<>>
    /\ state = GREETING => pc = "idle"
    /\ at_start # <<>> => at_start[1].state \in OrchestratorStates

C26_Witness ==
    /\ pc = "respond"
    /\ at_start # <<>>
    /\ at_start[1].state = RESERVATION_CONFIRMED
    /\ state = ERROR_HANDLING
    /\ chat_history # <<>>

\* ---------------------------------------------------------------------
\* C27: a matched restaurant id that is not None is the id of a
\* restaurant of the catalog, and the turn that wrote it found a
\* restaurant with that id in the stored result set, whether the id came
\* from the substring test or from the oracle.
C27_MatchedIdInResultSet ==
    /\ current_restaurant_id # <<>> => IndexOfId(db, current_restaurant_id) # 0
    /\ (/\ at_start # <<>>
        /\ current_restaurant_id # <<>>
        /\ current_restaurant_id # at_start[1].current_restaurant_id) =>
          IndexOfId(at_start[1].filtered_restaurants, current_restaurant_id) # 0

\* ---------------------------------------------------------------------
\* C28: the matched restaurant id is written only by a step of the
\* RESTAURANT_SUGGESTION handler that found a match (the value written is
\* truthy), every other step leaves it unchanged, and once it is not None
\* no step makes it None again.
C28_IdWrittenOnlyByMatch ==
    [][ /\ current_restaurant_id' # current_restaurant_id =>
              /\ Handling(RESTAURANT_SUGGESTION)
              /\ IdTruthy(current_restaurant_id')
        /\ ~Handling(RESTAURANT_SUGGESTION) =>
              current_restaurant_id' = current_restaurant_id
        /\ current_restaurant_id # <<>> => current_restaurant_id' # <<>>
      ]_vars

\* a new search answered after a commit, the id of the booked restaurant
\* still stored
C28_Witness ==
    /\ pc = "respond"
    /\ at_start # <<>>
    /\ at_start[1].state = INTENT_DETECTION
    /\ state = RESTAURANT_SUGGESTION
    /\ SumLen(db) = 1
    /\ current_restaurant_id # <<>>
    /\ IndexOfId(db, current_restaurant_id) # 0
    /\ Len(db[IndexOfId(db, current_restaurant_id)].reservations) = 1

====
